---- MODULE Spec2Model ----
(***************************************************************************)
(* Model of the grading core of grading_app: compute_grade_boundaries and  *)
(* validate_boundaries (utils.py) and the manual-override step of main_app *)
(* (app.py).                                                               *)
(*                                                                         *)
(* Marks and thresholds are floats in the program; the program only        *)
(* copies and compares them, so they are integers here.  A boundary map is *)
(* a Python dict, which iterates in insertion order: it is a sequence of   *)
(* <<label, threshold>> pairs with pairwise distinct labels.  Python's     *)
(* 0-based positions are kept as they are (start_idx, end_idx, center_idx) *)
(* and translated to 1-based sequence positions only inside Iloc and At.   *)
(*                                                                         *)
(* (distribution * total_students).astype(int) is a product of doubles     *)
(* truncated toward zero.  The product is non-negative, and for every      *)
(* label count up to 6 and roster size up to 100 the double result         *)
(* truncates to the exact floor(w * total / sum(w)), which is what         *)
(* FloorCounts computes.                                                   *)
(***************************************************************************)
EXTENDS Integers, Sequences, FiniteSets, TLC

\* ---- bounds of the model -------------------------------------------------
MaxLabels == 3         \* labels in the Grade Label Sequence
MaxStudents == 4       \* rows of a roster graded automatically
MaxManual == 3         \* entries of a manual map passed by a direct caller
MaxOverrideRows == 1   \* rows of a roster passed together with a manual map

\* ---- input domains -------------------------------------------------------
LabelNames == <<"A", "B", "C", "D", "E">>
LowestName == "F"
ScoreVals == {-10, 0, 30, 90}
ThreshVals == {0, 30, 90}
ScenarioScores == <<10, 20, 30, 40, 50, 60, 70, 80, 90, 100>>

VARIABLES
    grade_labels,       \* the Grade Label Sequence, highest first
    grade_centric,      \* the centric label
    marks,              \* df['marks']
    grade,              \* df['grade'], <<>> while the column does not exist
    manual_boundaries,  \* the manual_boundaries argument, <<>> for None / {}
    mode,               \* "none", "auto" or "manual": the branch taken at line 10
    grade_counts,       \* grade_counts after line 18
    df_sorted,          \* the marks of df_sorted
    grade_boundaries,   \* the dict grade_boundaries
    i,                  \* loop variable of line 24 (0-based)
    start_idx,
    end_idx,
    clamped,            \* TRUE once line 27 has run in this call
    valid,              \* result of validate_boundaries: "unchecked", "true", "false"
    pc

vars == <<grade_labels, grade_centric, marks, grade, manual_boundaries, mode,
          grade_counts, df_sorted, grade_boundaries, i, start_idx, end_idx,
          clamped, valid, pc>>

\* ---- generic helpers -----------------------------------------------------
Abs(x) == IF x < 0 THEN -x ELSE x

RECURSIVE SumTo(_, _)
SumTo(s, k) == IF k = 0 THEN 0 ELSE s[k] + SumTo(s, k - 1)

Sum(s) == SumTo(s, Len(s))

RECURSIVE MaxTo(_, _)
MaxTo(s, k) == IF k = 1 THEN s[1]
               ELSE IF s[k] > MaxTo(s, k - 1) THEN s[k] ELSE MaxTo(s, k - 1)

NpMax(s) == MaxTo(s, Len(s))

\* list.index(x): 0-based position of the first occurrence
RECURSIVE IndexFrom(_, _, _)
IndexFrom(s, x, k) == IF s[k] = x THEN k - 1 ELSE IndexFrom(s, x, k + 1)

ListIndex(s, x) == IndexFrom(s, x, 1)

\* s[k] and df.iloc[k] for a 0-based k; a negative k counts from the end
At(s, k) == s[k + 1]

Iloc(s, k) == IF k < 0 THEN s[Len(s) + k + 1] ELSE s[k + 1]

\* ---- dict operations -----------------------------------------------------
Keys(d) == {d[k][1] : k \in 1..Len(d)}

HasKey(d, g) == \E k \in 1..Len(d) : d[k][1] = g

DictGet(d, g) == d[CHOOSE k \in 1..Len(d) : d[k][1] = g][2]

\* d[g] = b: an existing key keeps its position, a new key goes last
DictSet(d, g, b) ==
    IF HasKey(d, g)
    THEN [k \in 1..Len(d) |-> IF d[k][1] = g THEN <<g, b>> ELSE d[k]]
    ELSE Append(d, <<g, b>>)

\* ---- compute_grade_boundaries, automatic branch --------------------------
Distances(n, center_idx) == [k \in 1..n |-> Abs((k - 1) - center_idx)]

Weights_peakless(n, center_idx) ==
    [k \in 1..n |-> Distances(n, center_idx)[k] + 1]

Weights(n, center_idx) ==
    [k \in 1..n |-> NpMax(Distances(n, center_idx)) - Distances(n, center_idx)[k] + 1]

FloorCounts(w, total_students) ==
    [k \in 1..Len(w) |-> (w[k] * total_students) \div Sum(w)]

GradeCounts_nodrift(w, total_students) == FloorCounts(w, total_students)

GradeCounts_driftfirst(w, total_students) ==
    [FloorCounts(w, total_students) EXCEPT
        ![1] = @ + total_students - Sum(FloorCounts(w, total_students))]

GradeCounts(w, total_students) ==
    [FloorCounts(w, total_students) EXCEPT
        ![Len(w)] = @ + total_students - Sum(FloorCounts(w, total_students))]

\* insertion of x into a descending sequence
RECURSIVE InsertDesc(_, _)
InsertDesc(s, x) ==
    IF s = <<>> THEN <<x>>
    ELSE IF x >= Head(s) THEN <<x>> \o s
    ELSE <<Head(s)>> \o InsertDesc(Tail(s), x)

RECURSIVE SortDesc(_)
SortDesc(s) == IF s = <<>> THEN <<>> ELSE InsertDesc(SortDesc(Tail(s)), Head(s))

ThresholdAt_offbyone(sorted, e) == Iloc(sorted, IF e < Len(sorted) THEN e ELSE e - 1)

ThresholdAt(sorted, e) == Iloc(sorted, e - 1)

\* ---- the grade of one score (the lambda of line 34) ----------------------
RECURSIVE FirstMatch(_, _, _, _)
FirstMatch(d, x, k, default) ==
    IF k > Len(d) THEN default
    ELSE IF x >= d[k][2] THEN d[k][1]
    ELSE FirstMatch(d, x, k + 1, default)

AssignGrade_nodefault(x, d, labels) == FirstMatch(d, x, 1, "")

AssignGrade(x, d, labels) == FirstMatch(d, x, 1, labels[Len(labels)])

\* ---- line 10: the truth value of manual_boundaries -----------------------
UseManual_never(manual) == FALSE

UseManual(manual) == manual # <<>>

\* ---- validate_boundaries -------------------------------------------------
BoundaryValues(labels, boundaries) ==
    [k \in 1..(Len(labels) - 1) |-> DictGet(boundaries, labels[k])]

validate_boundaries_weak(labels, boundaries) ==
    \A k \in 1..(Len(labels) - 2) :
        BoundaryValues(labels, boundaries)[k] >= BoundaryValues(labels, boundaries)[k + 1]

validate_boundaries(labels, boundaries) ==
    \A k \in 1..(Len(labels) - 2) :
        BoundaryValues(labels, boundaries)[k] > BoundaryValues(labels, boundaries)[k + 1]

Validatable(labels, boundaries) ==
    \A k \in 1..(Len(labels) - 1) : HasKey(boundaries, labels[k])

\* ---- inputs --------------------------------------------------------------
LabelSeq(n) == SubSeq(LabelNames, 1, n - 1) \o <<LowestName>>

RECURSIVE SeqsUpTo(_, _)
SeqsUpTo(S, n) ==
    IF n = 0 THEN {<<>>}
    ELSE SeqsUpTo(S, n - 1) \cup
         {Append(s, x) : s \in {t \in SeqsUpTo(S, n - 1) : Len(t) = n - 1}, x \in S}

Rosters == SeqsUpTo(ScoreVals, MaxStudents) \cup {ScenarioScores}

\* the grade of a row depends on no other row (line 34), so a roster that
\* comes with a manual map is short, or the ten rows of the scenario
OverrideRosters == SeqsUpTo(ScoreVals, MaxOverrideRows) \cup {ScenarioScores}

RECURSIVE DictsUpTo(_, _)
DictsUpTo(labels, n) ==
    IF n = 0 THEN {<<>>}
    ELSE DictsUpTo(labels, n - 1) \cup
         UNION {{Append(d, <<labels[k], b>>) : b \in ThreshVals} :
                   <<d, k>> \in {p \in DictsUpTo(labels, n - 1) \X (1..Len(labels)) :
                                    Len(p[1]) = n - 1 /\ ~HasKey(p[1], labels[p[2]])}}

ManualMaps(labels) ==
    DictsUpTo(labels, IF Len(labels) < MaxManual THEN Len(labels) ELSE MaxManual)

total_students == Len(marks)

center_idx == ListIndex(grade_labels, grade_centric)

\* ---- the state machine ---------------------------------------------------
Init ==
    /\ \E n \in 2..MaxLabels : grade_labels = LabelSeq(n)
    /\ grade_centric \in {grade_labels[k] : k \in 1..Len(grade_labels)}
    /\ manual_boundaries \in ManualMaps(grade_labels)
    /\ marks \in IF manual_boundaries = <<>> THEN Rosters ELSE OverrideRosters
    /\ grade = <<>>
    /\ mode = "none"
    /\ grade_counts = <<>>
    /\ df_sorted = <<>>
    /\ grade_boundaries = <<>>
    /\ i = 0
    /\ start_idx = 0
    /\ end_idx = 0
    /\ clamped = FALSE
    /\ valid = "unchecked"
    /\ pc = "call"

\* a caller checks the manual map before the call (utils.py 37-40)
Validate ==
    /\ pc = "call"
    /\ valid = "unchecked"
    /\ manual_boundaries # <<>>
    /\ Validatable(grade_labels, manual_boundaries)
    /\ valid' = IF validate_boundaries(grade_labels, manual_boundaries)
                THEN "true" ELSE "false"
    /\ UNCHANGED <<grade_labels, grade_centric, marks, grade, manual_boundaries,
                   mode, grade_counts, df_sorted, grade_boundaries, i,
                   start_idx, end_idx, clamped, pc>>

\* lines 7-22
Call ==
    /\ pc = "call"
    /\ i' = 0
    /\ start_idx' = 0
    /\ end_idx' = 0
    /\ clamped' = FALSE
    /\ IF UseManual(manual_boundaries)
       THEN /\ mode' = "manual"
            /\ grade_boundaries' = manual_boundaries
            /\ grade_counts' = <<>>
            /\ df_sorted' = <<>>
            /\ pc' = "assign"
       ELSE /\ mode' = "auto"
            /\ grade_counts' = GradeCounts(Weights(Len(grade_labels), center_idx),
                                           total_students)
            /\ df_sorted' = SortDesc(marks)
            /\ grade_boundaries' = <<>>
            /\ pc' = "loop"
    /\ UNCHANGED <<grade_labels, grade_centric, marks, grade, manual_boundaries, valid>>

\* one iteration of the loop of lines 24-30
LoopStep ==
    /\ pc = "loop"
    /\ i < Len(grade_labels) - 1
    /\ LET raw == start_idx + At(grade_counts, i)
           e   == IF raw > total_students THEN total_students ELSE raw
       IN /\ end_idx' = e
          /\ clamped' = (clamped \/ raw > total_students)
          /\ grade_boundaries' =
                IF start_idx < total_students
                THEN DictSet(grade_boundaries, At(grade_labels, i), ThresholdAt(df_sorted, e))
                ELSE grade_boundaries
          /\ start_idx' = e
    /\ i' = i + 1
    /\ UNCHANGED <<grade_labels, grade_centric, marks, grade, manual_boundaries,
                   mode, grade_counts, df_sorted, valid, pc>>

\* line 32
Floor ==
    /\ pc = "loop"
    /\ i = Len(grade_labels) - 1
    /\ grade_boundaries' = DictSet(grade_boundaries, grade_labels[Len(grade_labels)], 0)
    /\ pc' = "assign"
    /\ UNCHANGED <<grade_labels, grade_centric, marks, grade, manual_boundaries,
                   mode, grade_counts, df_sorted, i, start_idx, end_idx, clamped, valid>>

\* lines 34-35
Assign ==
    /\ pc = "assign"
    /\ grade' = [k \in 1..Len(marks) |-> AssignGrade(marks[k], grade_boundaries, grade_labels)]
    /\ pc' = "done"
    /\ UNCHANGED <<grade_labels, grade_centric, marks, manual_boundaries, mode,
                   grade_counts, df_sorted, grade_boundaries, i, start_idx,
                   end_idx, clamped, valid>>

\* app.py 140-152: the sliders of the manual override, shown after the
\* automatic call of line 138.  Line 145 reads boundaries[grade] for every
\* label but the last as the default of a slider over [0.0, 100.0]; the user
\* keeps the default or moves the slider.  The map is built in label order,
\* the last label is set to 0, and the second call (line 152) is made only
\* when validate_boundaries accepts the map.
SliderChoices(g) ==
    ThreshVals \cup ({DictGet(grade_boundaries, g)} \cap (0..100))

Sliders ==
    /\ pc = "done"
    /\ mode = "auto"
    /\ Validatable(grade_labels, grade_boundaries)
    /\ \E v \in [1..(Len(grade_labels) - 1) ->
                  UNION {SliderChoices(grade_labels[k]) : k \in 1..(Len(grade_labels) - 1)}] :
          /\ \A k \in 1..(Len(grade_labels) - 1) : v[k] \in SliderChoices(grade_labels[k])
          /\ LET m == [k \in 1..Len(grade_labels) |->
                         IF k < Len(grade_labels) THEN <<grade_labels[k], v[k]>>
                         ELSE <<grade_labels[k], 0>>]
             IN /\ manual_boundaries' = m
                /\ valid' = IF validate_boundaries(grade_labels, m) THEN "true" ELSE "false"
                /\ pc' = IF validate_boundaries(grade_labels, m) THEN "call" ELSE "rejected"
    /\ UNCHANGED <<grade_labels, grade_centric, marks, grade, mode, grade_counts,
                   df_sorted, grade_boundaries, i, start_idx, end_idx, clamped>>

Next == Validate \/ Call \/ LoopStep \/ Floor \/ Assign \/ Sliders

Spec == Init /\ [][Next]_vars

\* ---- vocabulary of the properties ----------------------------------------
LabelSet == {grade_labels[k] : k \in 1..Len(grade_labels)}

LastLabel == grade_labels[Len(grade_labels)]

NonLast == 1..(Len(grade_labels) - 1)

Returned == pc \in {"assign", "done"}

AutoCounted == mode = "auto" /\ pc \in {"loop", "assign", "done"}

NoThreshold(x) == \A k \in 1..Len(grade_boundaries) : x < grade_boundaries[k][2]

NumberGraded(g) == Cardinality({k \in 1..Len(grade) : grade[k] = g})

\* the labels, in Grade Label Sequence order, whose threshold in the map is <= x
Qualifying(x) ==
    {k \in 1..Len(grade_labels) :
        HasKey(grade_boundaries, grade_labels[k]) /\ DictGet(grade_boundaries, grade_labels[k]) <= x}

HighestQualifying(x) ==
    IF Qualifying(x) = {} THEN LastLabel
    ELSE grade_labels[CHOOSE k \in Qualifying(x) : \A j \in Qualifying(x) : k <= j]

\* ---- C1 ------------------------------------------------------------------
\* C1: after the call every score has exactly one grade, the grade is a label
\* of the supplied sequence, and a score below every threshold of the map has
\* the last label.
C1_EveryScoreGraded ==
    pc = "done" =>
        /\ DOMAIN grade = DOMAIN marks
        /\ \A k \in 1..Len(marks) :
              /\ grade[k] \in LabelSet
              /\ NoThreshold(marks[k]) => grade[k] = LastLabel

C1_Witness ==
    /\ pc = "done"
    /\ mode = "manual"
    /\ ~HasKey(grade_boundaries, LastLabel)
    /\ \E k \in 1..Len(marks) :
          marks[k] < 0 /\ NoThreshold(marks[k]) /\ grade[k] = LastLabel

\* ---- C2 ------------------------------------------------------------------
\* C2: in automatic mode the target counts sum to the number of students.
C2_CountsSumToTotal ==
    AutoCounted =>
        /\ Len(grade_counts) = Len(grade_labels)
        /\ Sum(grade_counts) = total_students

C2_Witness ==
    /\ AutoCounted
    /\ total_students > 0
    /\ Sum(FloorCounts(Weights(Len(grade_labels), center_idx), total_students))
          < total_students
    /\ Sum(grade_counts) = total_students

\* ---- C3 ------------------------------------------------------------------
IsScenario ==
    /\ grade_labels = <<"A", "B", "F">>
    /\ grade_centric = "B"
    /\ marks = ScenarioScores
    /\ mode = "auto"

\* C3 as stated: for labels [A, B, F], centric B and the scores 10, 20, ...,
\* 100 the target counts are [2, 5, 3] and the returned map is A = 90,
\* B = 30, F = 0.
C3_ScenarioAsStated ==
    (IsScenario /\ Returned) =>
        /\ grade_counts = <<2, 5, 3>>
        /\ grade_boundaries = << <<"A", 90>>, <<"B", 30>>, <<"F", 0>> >>

\* C3 amended: the target counts are [2, 5, 3] and the returned map is
\* A = 90, B = 40, F = 0 (the seventh score of the descending order is 40).
C3_Scenario ==
    (IsScenario /\ Returned) =>
        /\ grade_counts = <<2, 5, 3>>
        /\ grade_boundaries = << <<"A", 90>>, <<"B", 40>>, <<"F", 0>> >>

C3_Witness ==
    /\ IsScenario
    /\ pc = "done"
    /\ At(df_sorted, 6) = DictGet(grade_boundaries, "B")
    /\ NumberGraded("B") = 5

\* ---- C4 ------------------------------------------------------------------
\* C4 as stated: the centric label's final target count is at least the final
\* target count of every other label.
C4_CentricLargestOfAll ==
    AutoCounted =>
        \A k \in 1..Len(grade_labels) :
            At(grade_counts, center_idx) >= grade_counts[k]

\* C4 amended: the centric label's final target count is at least the final
\* target count of every other label except the last one, which receives the
\* rounding leftover.
C4_CentricLargestButLast ==
    AutoCounted =>
        \A k \in NonLast : At(grade_counts, center_idx) >= grade_counts[k]

C4_Witness ==
    /\ AutoCounted
    /\ grade_centric # LastLabel
    /\ At(grade_counts, center_idx) > 0
    /\ grade_counts[Len(grade_labels)] > At(grade_counts, center_idx)
    /\ \E k \in NonLast : grade_counts[k] < At(grade_counts, center_idx)

\* ---- C5 ------------------------------------------------------------------
\* C5: every map returned in automatic mode for a non-empty roster has
\* strictly descending thresholds over all labels but the last (it passes
\* validate_boundaries) and threshold 0 for the last label.
C5_AutoMapDescending ==
    (mode = "auto" /\ Returned /\ total_students > 0) =>
        /\ Validatable(grade_labels, grade_boundaries)
        /\ validate_boundaries(grade_labels, grade_boundaries)
        /\ HasKey(grade_boundaries, LastLabel)
        /\ DictGet(grade_boundaries, LastLabel) = 0

\* ---- C6 ------------------------------------------------------------------
\* C6: validate_boundaries returns true exactly when every two labels adjacent
\* in label order among all labels but the last have strictly descending
\* thresholds, whatever the last label's threshold is; {A:90,B:30,F:0} passes
\* and {A:30,B:30,F:0} fails.
C6_ValidatorIff ==
    valid # "unchecked" =>
        /\ (valid = "true") <=>
              ~(\E k \in NonLast : k + 1 \in NonLast /\
                    DictGet(manual_boundaries, grade_labels[k])
                        <= DictGet(manual_boundaries, grade_labels[k + 1]))
        /\ \A t \in ThreshVals \cup {-1, 100} :
              validate_boundaries(grade_labels, DictSet(manual_boundaries, LastLabel, t))
                  <=> (valid = "true")
        /\ manual_boundaries = << <<"A", 90>>, <<"B", 30>>, <<"F", 0>> >> => valid = "true"
        /\ manual_boundaries = << <<"A", 30>>, <<"B", 30>>, <<"F", 0>> >> => valid = "false"

C6_Witness ==
    /\ valid = "false"
    /\ manual_boundaries = << <<"A", 30>>, <<"B", 30>>, <<"F", 0>> >>

\* ---- C7 ------------------------------------------------------------------
\* C7: the grade of every score is the first label, in Grade Label Sequence
\* order, whose threshold in the map is <= the score (labels absent from the
\* map are skipped), and the last label when no label qualifies.
C7_FirstInLabelOrder ==
    pc = "done" =>
        \A k \in 1..Len(marks) : grade[k] = HighestQualifying(marks[k])

\* ---- C8 ------------------------------------------------------------------
\* C8: with a non-empty manual map the returned map is the supplied map, no
\* counts or thresholds are computed from the scores, a map that failed
\* validation is applied all the same, and the call changes nothing but the
\* grade column.
C8_ManualVerbatim ==
    /\ [](( manual_boundaries # <<>> /\ Returned) =>
            /\ mode = "manual"
            /\ grade_boundaries = manual_boundaries
            /\ grade_counts = <<>>
            /\ df_sorted = <<>>
            /\ ~clamped)
    /\ [][(manual_boundaries # <<>> /\ pc \in {"call", "assign"} /\ pc' \in {"assign", "done"}) =>
            /\ marks' = marks
            /\ manual_boundaries' = manual_boundaries
            /\ grade_labels' = grade_labels
            /\ grade_centric' = grade_centric]_vars

C8_Witness ==
    /\ pc = "done"
    /\ mode = "manual"
    /\ valid = "false"
    /\ grade_boundaries = manual_boundaries
    /\ \E k \in 1..Len(grade) : grade[k] # LastLabel

\* ---- C9 ------------------------------------------------------------------
PairwiseDistinct(s) == \A j, k \in 1..Len(s) : j # k => s[j] # s[k]

\* C9: in automatic mode, for a roster of pairwise distinct non-negative
\* scores, the number of scores assigned each label equals the label's target
\* count.
C9_CountsRealised ==
    (pc = "done" /\ mode = "auto" /\ PairwiseDistinct(marks)
        /\ \A k \in 1..Len(marks) : marks[k] >= 0) =>
        \A k \in 1..Len(grade_labels) : NumberGraded(grade_labels[k]) = grade_counts[k]

\* ---- C10 -----------------------------------------------------------------
\* C10: in automatic mode with at least one student, at every step of the
\* walk start_idx is below the number of students and the end index does not
\* exceed it, the clamp never fires, and the returned map has a threshold for
\* every label; a label is missing from the map only for an empty roster.
C10_WalkStaysInside ==
    /\ (mode = "auto" /\ total_students > 0) =>
          /\ (pc = "loop" /\ i < Len(grade_labels) - 1) =>
                /\ start_idx < total_students
                /\ start_idx + At(grade_counts, i) <= total_students
          /\ ~clamped
          /\ Returned => \A g \in LabelSet : HasKey(grade_boundaries, g)
    /\ (mode = "auto" /\ Returned /\ \E g \in LabelSet : ~HasKey(grade_boundaries, g))
          => total_students = 0

C10_Witness ==
    /\ mode = "auto"
    /\ pc = "done"
    /\ total_students > 0
    /\ \E k \in NonLast : grade_counts[k] = 0
    /\ \A g \in LabelSet : HasKey(grade_boundaries, g)

====
